---- MODULE Spec2Model ----
(***************************************************************************)
(* Model of src/app.py (the master side of the file): the Flask routes     *)
(* /dashboard_2 (batch upload, classify, partition), /dashboard (single    *)
(* image) and /register, the upload folder they share and the             *)
(* registered_users table.                                                 *)
(*                                                                         *)
(* Scores are fixed-point numbers in units of 10^-8, so 0.3 is 30000000    *)
(* and 0.30000001 is 30000001.                                             *)
(***************************************************************************)
EXTENDS Integers, Sequences, FiniteSets, TLC

VARIABLES
    dir,                \* the upload folder: file name -> bytes, or NoFile
    users,              \* rows of the registered_users table, in insertion order
    pc,                 \* each worker's position in its view function
    request,            \* the request a worker handles: its path and method
    images,             \* dashboard_2: images = os.listdir(image_dir)
    items,              \* delete_items: entries of os.listdir(directory) still to remove
    uploaded_files,     \* dashboard_2: request.files.getlist('images[]')
    idx,                \* dashboard_2: position of the for loop in uploaded_files
    img_array,          \* the bytes Image.open read, as preprocessed
    prediction_result,  \* loaded_model.predict(img_array): <<>> or <<score>>
    class_0_images,     \* dashboard_2: list of file names
    class_1_images,     \* dashboard_2: list of file names
    file,               \* dashboard: request.files, the 'image' part
    message,            \* dashboard: local message
    result,             \* dashboard: local result, <<>> or <<pas, pns>>
    form,               \* register: the submitted RegisterForm and its errors
    hashed_password,    \* register: local hashed_password
    response            \* what the worker's request ended with

vars == <<dir, users, pc, request, images, items, uploaded_files, idx, img_array,
          prediction_result, class_0_images, class_1_images, file, message,
          result, form, hashed_password, response>>

batchLocals == <<images, items, uploaded_files, idx, img_array,
                 prediction_result, class_0_images, class_1_images>>
dashLocals == <<file, message, result>>
regLocals == <<form, hashed_password>>

----------------------------------------------------------------------------
(* Bounds *)

MaxUploads == 3         \* longest batch of a sequential request
MaxConcUploads == 1     \* longest batch of a request that runs beside another

(* Inputs *)

Workers == {1, 2}

Names == {"a.png", "b.png", "c.png"}
ConcNames == {"a.png", "b.png"}

\* File contents. "junk" is not an image; the others are images the
\* classifier scores 0.9, 0.1, 0.5, 0.3 and 0.30000001.
Contents == {"img90", "img10", "img50", "img30", "img30eps", "junk"}
ConcContents == {"img90", "img10"}

NoFile == "NoFile"
NoArray == "None"

Upload(n, c) == [filename |-> n, data |-> c]

SeqsUpTo(S, n) == UNION {[1..k -> S] : k \in 0..n}

Batches == SeqsUpTo({Upload(n, c) : n \in Names, c \in Contents}, MaxUploads)
ConcBatches == SeqsUpTo({Upload(n, c) : n \in ConcNames, c \in ConcContents},
                        MaxConcUploads)

----------------------------------------------------------------------------
(* Pure helpers *)

\* PIL can decode the bytes
Decodable(c) == c \notin {"junk", NoFile}

\* loaded_model.predict on the preprocessed image: the model is a fixed
\* function of its input
Predict(c) ==
    CASE c = "img90" -> 90000000
      [] c = "img10" -> 10000000
      [] c = "img50" -> 50000000
      [] c = "img30" -> 30000000
      [] c = "img30eps" -> 30000001

Threshold == 30000000

\* Bucket with the comparison made non-strict
BucketNonStrict(score) == IF score >= Threshold THEN 0 ELSE 1

\* Bucket with the threshold mistyped as 0.5
BucketAtHalf(score) == IF score > 50000000 THEN 0 ELSE 1

\* if prediction_result > 0.3: class 0, else class 1
Bucket(score) == IF score > Threshold THEN 0 ELSE 1

\* list.insert(0, x) in place of list.append(x)
ListPrepend(list, x) == <<x>> \o list

\* list.append
ListAppend(list, x) == Append(list, x)

\* os.listdir
Listdir(d) == {n \in DOMAIN d : d[n] # NoFile}

EmptyDir == [n \in Names |-> NoFile]

\* A response: what kind it is, the exception that ended the request and
\* the step that raised it (kind "error"), and what the body carries
Resp(kind, exc, at) ==
    [kind |-> kind, exc |-> exc, at |-> at, message |-> "", result |-> <<>>,
     class_0_images |-> <<>>, class_1_images |-> <<>>, images |-> {},
     errors |-> {}]

NoResp == Resp("none", "", "")
NoRequest == [path |-> "-", method |-> "-"]
NoPart == [present |-> FALSE, filename |-> "", data |-> NoFile]
NoForm == [username |-> "", password |-> "", errors |-> {}]

----------------------------------------------------------------------------
Init ==
    /\ dir = EmptyDir
    /\ users = <<>>
    /\ pc = [w \in Workers |-> "idle"]
    /\ request = [w \in Workers |-> NoRequest]
    /\ images = [w \in Workers |-> {}]
    /\ items = [w \in Workers |-> {}]
    /\ uploaded_files = [w \in Workers |-> <<>>]
    /\ idx = [w \in Workers |-> 0]
    /\ img_array = [w \in Workers |-> NoArray]
    /\ prediction_result = [w \in Workers |-> <<>>]
    /\ class_0_images = [w \in Workers |-> <<>>]
    /\ class_1_images = [w \in Workers |-> <<>>]
    /\ file = [w \in Workers |-> NoPart]
    /\ message = [w \in Workers |-> ""]
    /\ result = [w \in Workers |-> <<>>]
    /\ form = [w \in Workers |-> NoForm]
    /\ hashed_password = [w \in Workers |-> <<>>]
    /\ response = [w \in Workers |-> NoResp]

\* An unhandled exception leaves the view: Flask answers 500
Raise(w, exc) ==
    /\ pc' = [pc EXCEPT ![w] = "done"]
    /\ response' = [response EXCEPT ![w] = Resp("error", exc, pc[w])]

----------------------------------------------------------------------------
(* /dashboard_2 *)

\* a request for /dashboard_2 reaches the view
Dashboard2Request(w) ==
    /\ pc[w] = "idle"
    /\ \E m \in {"GET", "POST"} :
          request' = [request EXCEPT ![w] = [path |-> "/dashboard_2", method |-> m]]
    /\ pc' = [pc EXCEPT ![w] = "d2_listdir"]
    /\ UNCHANGED <<dir, users, batchLocals, dashLocals, regLocals, response>>

\* images = os.listdir(image_dir); class_0_images = []; class_1_images = []
\* (images is read by the GET path alone: a POST's listing is not kept)
Dashboard2Listdir(w) ==
    /\ pc[w] = "d2_listdir"
    /\ images' = [images EXCEPT ![w] =
                    IF request[w].method = "POST" THEN {} ELSE Listdir(dir)]
    /\ class_0_images' = [class_0_images EXCEPT ![w] = <<>>]
    /\ class_1_images' = [class_1_images EXCEPT ![w] = <<>>]
    /\ pc' = [pc EXCEPT ![w] = IF request[w].method = "POST" THEN "delete_items"
                                                     ELSE "d2_render"]
    /\ UNCHANGED <<dir, users, request, items, uploaded_files, idx, img_array,
                   prediction_result, dashLocals, regLocals, response>>

\* delete_items: for item in os.listdir(directory)
DeleteItemsListdir(w) ==
    /\ pc[w] = "delete_items"
    /\ items' = [items EXCEPT ![w] = Listdir(dir)]
    /\ pc' = [pc EXCEPT ![w] = "remove"]
    /\ UNCHANGED <<dir, users, request, images, uploaded_files, idx, img_array,
                   prediction_result, class_0_images, class_1_images,
                   dashLocals, regLocals, response>>

\* RemoveFailed with the exception swallowed: dashboard_2 goes on
RemoveFailedSwallowed(w, exc) ==
    /\ pc' = [pc EXCEPT ![w] = "getlist"]
    /\ UNCHANGED <<dir, items, response>>

\* os.remove raised: nothing catches it, the request ends
RemoveFailed(w, exc) ==
    /\ Raise(w, exc)
    /\ UNCHANGED <<dir, items>>

\* DeleteItemsRemove that removes nothing
DeleteItemsRemoveNothing(w) ==
    /\ pc[w] = "remove"
    /\ pc' = [pc EXCEPT ![w] = "getlist"]
    /\ items' = [items EXCEPT ![w] = {}]
    /\ UNCHANGED <<dir, users, request, images, uploaded_files, idx, img_array,
                   prediction_result, class_0_images, class_1_images,
                   dashLocals, regLocals, response>>

\* delete_items: os.remove(item_path) for the next entry, in the order the
\* listing gives (any); the loop's end returns to dashboard_2
DeleteItemsRemove(w) ==
    /\ pc[w] = "remove"
    /\ IF items[w] = {}
       THEN /\ pc' = [pc EXCEPT ![w] = "getlist"]
            /\ UNCHANGED <<dir, items, response>>
       ELSE \E item \in items[w] :
              IF dir[item] = NoFile
              THEN RemoveFailed(w, "FileNotFoundError")
              ELSE \/ /\ dir' = [dir EXCEPT ![item] = NoFile]
                      /\ items' = [items EXCEPT ![w] = @ \ {item}]
                      /\ UNCHANGED <<pc, response>>
                   \/ RemoveFailed(w, "PermissionError")
    /\ UNCHANGED <<users, request, images, uploaded_files, idx, img_array,
                   prediction_result, class_0_images, class_1_images,
                   dashLocals, regLocals>>

\* uploaded_files = request.files.getlist('images[]')
Getlist(w, batches) ==
    /\ pc[w] = "getlist"
    /\ \E b \in batches : uploaded_files' = [uploaded_files EXCEPT ![w] = b]
    /\ idx' = [idx EXCEPT ![w] = 0]
    /\ pc' = [pc EXCEPT ![w] = "for"]
    /\ UNCHANGED <<dir, users, request, images, items, img_array,
                   prediction_result, class_0_images, class_1_images,
                   dashLocals, regLocals, response>>

\* for file in uploaded_files
ForFile(w) ==
    /\ pc[w] = "for"
    /\ IF idx[w] < Len(uploaded_files[w])
       THEN /\ idx' = [idx EXCEPT ![w] = @ + 1]
            /\ pc' = [pc EXCEPT ![w] = "save"]
       ELSE /\ pc' = [pc EXCEPT ![w] = "jsonify"]
            /\ UNCHANGED idx
    /\ UNCHANGED <<dir, users, request, images, items, uploaded_files, img_array,
                   prediction_result, class_0_images, class_1_images,
                   dashLocals, regLocals, response>>

\* file.save(file_path): writes the upload under its file name, over
\* whatever is there; an OSError (disk, permissions) ends the request
FileSave(w) ==
    /\ pc[w] = "save"
    /\ LET f == uploaded_files[w][idx[w]] IN
       \/ /\ dir' = [dir EXCEPT ![f.filename] = f.data]
          /\ pc' = [pc EXCEPT ![w] = "open"]
          /\ UNCHANGED response
       \/ /\ Raise(w, "OSError")
          /\ UNCHANGED dir
    /\ UNCHANGED <<users, request, batchLocals, dashLocals, regLocals>>

\* with Image.open(file_path) as img: img_array = load_and_preprocess_image(img)
ImageOpen(w) ==
    /\ pc[w] = "open"
    /\ LET f == uploaded_files[w][idx[w]]
           bytes == dir[f.filename]
       IN  IF bytes = NoFile
           THEN /\ Raise(w, "FileNotFoundError")
                /\ UNCHANGED img_array
           ELSE IF ~Decodable(bytes)
           THEN /\ Raise(w, "UnidentifiedImageError")
                /\ UNCHANGED img_array
           ELSE /\ img_array' = [img_array EXCEPT ![w] = bytes]
                /\ pc' = [pc EXCEPT ![w] = "predict"]
                /\ UNCHANGED response
    /\ UNCHANGED <<dir, users, request, images, items, uploaded_files, idx,
                   prediction_result, class_0_images, class_1_images,
                   dashLocals, regLocals>>

\* prediction_result = loaded_model.predict(img_array); the runtime may
\* fail (resources, input shape), which ends the request
ModelPredict(w) ==
    /\ pc[w] = "predict"
    /\ \/ /\ prediction_result' =
                [prediction_result EXCEPT ![w] = <<Predict(img_array[w])>>]
          /\ pc' = [pc EXCEPT ![w] = "classify"]
          /\ UNCHANGED response
       \/ /\ Raise(w, "InferenceError")
          /\ UNCHANGED prediction_result
    /\ UNCHANGED <<dir, users, request, images, items, uploaded_files, idx,
                   img_array, class_0_images, class_1_images, dashLocals, regLocals>>

\* if prediction_result > 0.3: class_0_images.append(filename)
\* else: class_1_images.append(filename)
Classify(w) ==
    /\ pc[w] = "classify"
    /\ LET filename == uploaded_files[w][idx[w]].filename IN
       IF Bucket(prediction_result[w][1]) = 0
       THEN /\ class_0_images' =
                  [class_0_images EXCEPT ![w] = ListAppend(@, filename)]
            /\ UNCHANGED class_1_images
       ELSE /\ class_1_images' =
                  [class_1_images EXCEPT ![w] = ListAppend(@, filename)]
            /\ UNCHANGED class_0_images
    /\ pc' = [pc EXCEPT ![w] = "for"]
    /\ UNCHANGED <<dir, users, request, images, items, uploaded_files, idx,
                   img_array, prediction_result, dashLocals, regLocals, response>>

\* return jsonify({'class_0_images': ..., 'class_1_images': ...})
Dashboard2Jsonify(w) ==
    /\ pc[w] = "jsonify"
    /\ response' = [response EXCEPT ![w] =
                      [Resp("json", "", "") EXCEPT
                          !.class_0_images = class_0_images[w],
                          !.class_1_images = class_1_images[w]]]
    /\ pc' = [pc EXCEPT ![w] = "done"]
    /\ UNCHANGED <<dir, users, request, batchLocals, dashLocals, regLocals>>

\* return render_template('dashboard_2.html', images=images)
Dashboard2Render(w) ==
    /\ pc[w] = "d2_render"
    /\ response' = [response EXCEPT ![w] =
                      [Resp("html", "", "") EXCEPT !.images = images[w]]]
    /\ pc' = [pc EXCEPT ![w] = "done"]
    /\ UNCHANGED <<dir, users, request, batchLocals, dashLocals, regLocals>>

----------------------------------------------------------------------------
(* /dashboard *)

One == 100000000        \* 1.0 in score units
Cent == 1000000         \* 0.01 in score units

\* the multipart form of a POST /dashboard: no 'image' part, a part with an
\* empty file name, or a named file
DashFiles ==
    {NoPart, [present |-> TRUE, filename |-> "", data |-> NoFile]}
    \cup {[present |-> TRUE, filename |-> n, data |-> c] : n \in Names, c \in Contents}

\* "{:.2f}".format(x): x rounded to hundredths
Format2f(x) == (x + Cent \div 2) \div Cent

\* a request for /dashboard reaches the view
DashboardRequest(w) ==
    /\ pc[w] = "idle"
    /\ \E m \in {"GET", "POST"} :
          /\ request' = [request EXCEPT ![w] = [path |-> "/dashboard", method |-> m]]
          /\ \E f \in (IF m = "POST" THEN DashFiles ELSE {NoPart}) :
                file' = [file EXCEPT ![w] = f]
    /\ pc' = [pc EXCEPT ![w] = "dash_check"]
    /\ UNCHANGED <<dir, users, batchLocals, message, result, regLocals, response>>

\* result = None; message = ''; the checks of request.files
DashboardCheck(w) ==
    /\ pc[w] = "dash_check"
    /\ result' = [result EXCEPT ![w] = <<>>]
    /\ IF request[w].method = "POST"
       THEN IF ~file[w].present
            THEN /\ message' = [message EXCEPT ![w] = "No file part"]
                 /\ pc' = [pc EXCEPT ![w] = "dash_render"]
            ELSE IF file[w].filename = ""
            THEN /\ message' = [message EXCEPT ![w] = "No selected file"]
                 /\ pc' = [pc EXCEPT ![w] = "dash_render"]
            ELSE /\ message' = [message EXCEPT ![w] = ""]
                 /\ pc' = [pc EXCEPT ![w] = "dash_open"]
       ELSE /\ message' = [message EXCEPT ![w] = ""]
            /\ pc' = [pc EXCEPT ![w] = "dash_render"]
    /\ UNCHANGED <<dir, users, request, batchLocals, file, regLocals, response>>

\* imgo = Image.open(file); img_array = load_and_preprocess_image(imgo)
DashboardOpen(w) ==
    /\ pc[w] = "dash_open"
    /\ IF ~Decodable(file[w].data)
       THEN /\ Raise(w, "UnidentifiedImageError")
            /\ UNCHANGED img_array
       ELSE /\ img_array' = [img_array EXCEPT ![w] = file[w].data]
            /\ pc' = [pc EXCEPT ![w] = "dash_predict"]
            /\ UNCHANGED response
    /\ UNCHANGED <<dir, users, request, images, items, uploaded_files, idx,
                   prediction_result, class_0_images, class_1_images,
                   dashLocals, regLocals>>

\* prediction_result = loaded_model.predict(img_array)
DashboardPredict(w) ==
    /\ pc[w] = "dash_predict"
    /\ \/ /\ prediction_result' =
                [prediction_result EXCEPT ![w] = <<Predict(img_array[w])>>]
          /\ pc' = [pc EXCEPT ![w] = "dash_result"]
          /\ UNCHANGED response
       \/ /\ Raise(w, "InferenceError")
          /\ UNCHANGED prediction_result
    /\ UNCHANGED <<dir, users, request, images, items, uploaded_files, idx,
                   img_array, class_0_images, class_1_images, dashLocals,
                   regLocals>>

\* pa = 1 - score; pn = score; result = the two formatted;
\* return jsonify({'result': result, 'message': message})
DashboardResult(w) ==
    /\ pc[w] = "dash_result"
    /\ LET pn == prediction_result[w][1]
           pa == One - pn
           res == <<Format2f(pa), Format2f(pn)>>
           msg == "File uploaded successfully"
       IN  /\ result' = [result EXCEPT ![w] = res]
           /\ message' = [message EXCEPT ![w] = msg]
           /\ response' = [response EXCEPT ![w] =
                             [Resp("json", "", "") EXCEPT !.result = res,
                                                          !.message = msg]]
    /\ pc' = [pc EXCEPT ![w] = "done"]
    /\ UNCHANGED <<dir, users, request, batchLocals, file, regLocals>>

\* return render_template('dashboard.html'): the template gets no variable
DashboardRender(w) ==
    /\ pc[w] = "dash_render"
    /\ response' = [response EXCEPT ![w] = Resp("html", "", "")]
    /\ pc' = [pc EXCEPT ![w] = "done"]
    /\ UNCHANGED <<dir, users, request, batchLocals, dashLocals, regLocals>>

----------------------------------------------------------------------------
(* /register *)

MinLength == 4
MaxLength == 20

Usernames == {"", "bob", "alice", "carol", "abcdefghijklmnopqrstu"}
Passwords == {"pw", "secret"}

UsernameExists == "This username already exists. Please choose a different one."

\* bcrypt.generate_password_hash(password).decode('utf-8')
GeneratePasswordHash(p) == <<"$2b$", p>>

\* User.query.filter_by(username=u).first() finds a row
ExistingUser(table, u) == \E i \in 1..Len(table) : table[i].username = u

\* InputRequired(), Length(min=4, max=20) on one field
FieldErrors(field, data) ==
    IF data = "" THEN {<<field, "This field is required.">>}
    ELSE IF Len(data) < MinLength \/ Len(data) > MaxLength
    THEN {<<field, "Field must be between 4 and 20 characters long.">>}
    ELSE {}

\* RegisterForm.validate_username: runs unless InputRequired stopped the chain
ValidateUsername(table, u) ==
    IF u # "" /\ ExistingUser(table, u) THEN {<<"username", UsernameExists>>} ELSE {}

\* a request for /register reaches the view; form = RegisterForm()
RegisterRequest(w) ==
    /\ pc[w] = "idle"
    /\ \E m \in {"GET", "POST"} :
          /\ request' = [request EXCEPT ![w] = [path |-> "/register", method |-> m]]
          /\ IF m = "POST"
             THEN \E u \in Usernames, p \in Passwords :
                     form' = [form EXCEPT ![w] =
                                [username |-> u, password |-> p, errors |-> {}]]
             ELSE form' = [form EXCEPT ![w] = NoForm]
    /\ pc' = [pc EXCEPT ![w] = "reg_validate"]
    /\ UNCHANGED <<dir, users, batchLocals, dashLocals, hashed_password, response>>

\* if form.validate_on_submit()
RegisterValidate(w) ==
    /\ pc[w] = "reg_validate"
    /\ IF request[w].method = "POST"
       THEN LET errs == FieldErrors("username", form[w].username)
                        \cup ValidateUsername(users, form[w].username)
                        \cup FieldErrors("password", form[w].password)
            IN  /\ form' = [form EXCEPT ![w].errors = errs]
                /\ pc' = [pc EXCEPT ![w] = IF errs = {} THEN "reg_hash"
                                                       ELSE "reg_render"]
       ELSE /\ pc' = [pc EXCEPT ![w] = "reg_render"]
            /\ UNCHANGED form
    /\ UNCHANGED <<dir, users, request, batchLocals, dashLocals, hashed_password,
                   response>>

\* hashed_password = bcrypt.generate_password_hash(form.password.data)...
RegisterHash(w) ==
    /\ pc[w] = "reg_hash"
    /\ hashed_password' = [hashed_password EXCEPT ![w] =
                             GeneratePasswordHash(form[w].password)]
    /\ pc' = [pc EXCEPT ![w] = "reg_commit"]
    /\ UNCHANGED <<dir, users, request, batchLocals, dashLocals, form, response>>

\* db.session.add(new_user); db.session.commit(): username is unique=True, so
\* the insert of a name the table holds raises IntegrityError;
\* return redirect(url_for('login'))
RegisterCommit(w) ==
    /\ pc[w] = "reg_commit"
    /\ IF ExistingUser(users, form[w].username)
       THEN /\ Raise(w, "IntegrityError")
            /\ UNCHANGED users
       ELSE /\ users' = Append(users, [id |-> Len(users) + 1,
                                       username |-> form[w].username,
                                       password |-> hashed_password[w]])
            /\ response' = [response EXCEPT ![w] = Resp("redirect", "", "")]
            /\ pc' = [pc EXCEPT ![w] = "done"]
    /\ UNCHANGED <<dir, request, batchLocals, dashLocals, regLocals>>

\* return render_template('register.html', form=form)
RegisterRender(w) ==
    /\ pc[w] = "reg_render"
    /\ response' = [response EXCEPT ![w] =
                      [Resp("html", "", "") EXCEPT !.errors = form[w].errors]]
    /\ pc' = [pc EXCEPT ![w] = "done"]
    /\ UNCHANGED <<dir, users, request, batchLocals, dashLocals, regLocals>>

----------------------------------------------------------------------------
\* the response is sent; the worker's locals are gone and it takes the
\* next request
Return(w) ==
    /\ pc[w] = "done"
    /\ pc' = [pc EXCEPT ![w] = "idle"]
    /\ request' = [request EXCEPT ![w] = NoRequest]
    /\ images' = [images EXCEPT ![w] = {}]
    /\ items' = [items EXCEPT ![w] = {}]
    /\ uploaded_files' = [uploaded_files EXCEPT ![w] = <<>>]
    /\ idx' = [idx EXCEPT ![w] = 0]
    /\ img_array' = [img_array EXCEPT ![w] = NoArray]
    /\ prediction_result' = [prediction_result EXCEPT ![w] = <<>>]
    /\ class_0_images' = [class_0_images EXCEPT ![w] = <<>>]
    /\ class_1_images' = [class_1_images EXCEPT ![w] = <<>>]
    /\ file' = [file EXCEPT ![w] = NoPart]
    /\ message' = [message EXCEPT ![w] = ""]
    /\ result' = [result EXCEPT ![w] = <<>>]
    /\ form' = [form EXCEPT ![w] = NoForm]
    /\ hashed_password' = [hashed_password EXCEPT ![w] = <<>>]
    /\ response' = [response EXCEPT ![w] = NoResp]
    /\ UNCHANGED <<dir, users>>

\* one worker: batch requests run one at a time
Next ==
    \/ Dashboard2Request(1)
    \/ Dashboard2Listdir(1)
    \/ DeleteItemsListdir(1)
    \/ DeleteItemsRemove(1)
    \/ Getlist(1, Batches)
    \/ ForFile(1)
    \/ FileSave(1)
    \/ ImageOpen(1)
    \/ ModelPredict(1)
    \/ Classify(1)
    \/ Dashboard2Jsonify(1)
    \/ Dashboard2Render(1)
    \/ Return(1)

Spec == Init /\ [][Next]_vars

\* two workers serve /dashboard_2 side by side (nothing in the code
\* serializes them or separates their folders)
NextConc ==
    \E w \in Workers :
        \/ Dashboard2Request(w)
        \/ Dashboard2Listdir(w)
        \/ DeleteItemsListdir(w)
        \/ DeleteItemsRemove(w)
        \/ Getlist(w, ConcBatches)
        \/ ForFile(w)
        \/ FileSave(w)
        \/ ImageOpen(w)
        \/ ModelPredict(w)
        \/ Classify(w)
        \/ Dashboard2Jsonify(w)
        \/ Dashboard2Render(w)
        \/ Return(w)

SpecConc == Init /\ [][NextConc]_vars

\* one worker serves /dashboard
NextDash ==
    \/ DashboardRequest(1)
    \/ DashboardCheck(1)
    \/ DashboardOpen(1)
    \/ DashboardPredict(1)
    \/ DashboardResult(1)
    \/ DashboardRender(1)
    \/ Return(1)

SpecDash == Init /\ [][NextDash]_vars

\* two workers serve /register side by side
NextReg ==
    \E w \in Workers :
        \/ RegisterRequest(w)
        \/ RegisterValidate(w)
        \/ RegisterHash(w)
        \/ RegisterCommit(w)
        \/ RegisterRender(w)
        \/ Return(w)

SpecReg == Init /\ [][NextReg]_vars

----------------------------------------------------------------------------
(* Properties *)

Range(q) == {q[i] : i \in 1..Len(q)}

FileNames(b) == [i \in 1..Len(b) |-> b[i].filename]

RECURSIVE IsSubseq(_, _)
\* s can be had from t by dropping elements
IsSubseq(s, t) ==
    IF s = <<>> THEN TRUE
    ELSE IF t = <<>> THEN FALSE
    ELSE IF Head(s) = Head(t) THEN IsSubseq(Tail(s), Tail(t))
    ELSE IsSubseq(s, Tail(t))

\* the file names of the uploads b[1..n] whose score is strictly greater
\* than 0.3 (above = TRUE), or is not (above = FALSE), in upload order
RECURSIVE NamesWhere(_, _, _)
NamesWhere(b, n, above) ==
    IF n = 0 THEN <<>>
    ELSE IF (Predict(b[n].data) > 30000000) = above
    THEN Append(NamesWhere(b, n - 1, above), b[n].filename)
    ELSE NamesWhere(b, n - 1, above)

Occurrences(q, x) == Cardinality({i \in 1..Len(q) : q[i] = x})

\* worker w has ended a POST /dashboard_2
BatchDone(w) ==
    /\ pc[w] = "done"
    /\ request[w] = [path |-> "/dashboard_2", method |-> "POST"]

\* ... with the JSON result
BatchReturned(w) == BatchDone(w) /\ response[w].kind = "json"

\* C1: partial-failure isolation: a batch whose clear() succeeded ends with
\* the JSON result, whatever fails for one upload; an upload that cannot be
\* decoded is in neither list and every upload that can be is in one.
PartialFailureIsolation ==
    \A w \in Workers :
        (BatchDone(w) /\ response[w].at # "remove") =>
            /\ response[w].kind = "json"
            /\ \A i \in 1..Len(uploaded_files[w]) :
                  Decodable(uploaded_files[w][i].data) <=>
                     uploaded_files[w][i].filename \in
                        Range(response[w].class_0_images)
                        \cup Range(response[w].class_1_images)

\* C2: concurrent batches are isolated: whenever a request is about to open
\* the file it has just saved, the folder holds that file with the bytes
\* this request saved.
ConcurrentBatchIsolation ==
    \A w \in Workers :
        pc[w] = "open" =>
            dir[uploaded_files[w][idx[w]].filename] = uploaded_files[w][idx[w]].data

\* C3: bucket completeness and exclusivity: in the result of every batch,
\* uploads sharing a file name included, each upload's file name is in
\* exactly one list, none is in both, and none appears twice.
BucketExclusivity ==
    \A w \in Workers :
        BatchReturned(w) =>
            \A i \in 1..Len(uploaded_files[w]) :
                LET n == uploaded_files[w][i].filename IN
                Occurrences(response[w].class_0_images, n)
                  + Occurrences(response[w].class_1_images, n) = 1

\* C4: order preservation: each list is, at every moment, a subsequence of
\* the file names in upload order, and the result drops no upload (nothing
\* is deduplicated): the two lists together are as long as the batch.
OrderPreservation ==
    \A w \in Workers :
        /\ IsSubseq(class_0_images[w], FileNames(uploaded_files[w]))
        /\ IsSubseq(class_1_images[w], FileNames(uploaded_files[w]))
        /\ BatchReturned(w) =>
              /\ response[w].class_0_images = class_0_images[w]
              /\ response[w].class_1_images = class_1_images[w]
              /\ Len(class_0_images[w]) + Len(class_1_images[w])
                    = Len(uploaded_files[w])

OrderPreservationWitness ==
    \E w \in Workers :
        /\ BatchReturned(w)
        /\ class_0_images[w] = <<"b.png", "a.png">>
        /\ class_1_images[w] = <<"c.png">>
        /\ FileNames(uploaded_files[w]) = <<"b.png", "c.png", "a.png">>

\* the batch of C5: a.png, b.png, c.png scored 0.9, 0.1, 0.5
ExampleBatch ==
    <<Upload("a.png", "img90"), Upload("b.png", "img10"), Upload("c.png", "img50")>>

\* C5 as claimed: the batch [a.png, b.png, c.png] with scores
\* [0.9, 0.1, 0.5] returns class_0_images = [a.png] and
\* class_1_images = [b.png, c.png].
ExampleBucketsClaimed ==
    \A w \in Workers :
        (BatchReturned(w) /\ uploaded_files[w] = ExampleBatch) =>
            /\ response[w].class_0_images = <<"a.png">>
            /\ response[w].class_1_images = <<"b.png", "c.png">>

\* C5 as amended: that batch returns class_0_images = [a.png, c.png] and
\* class_1_images = [b.png], 0.5 being greater than 0.3.
ExampleBuckets ==
    \A w \in Workers :
        (BatchReturned(w) /\ uploaded_files[w] = ExampleBatch) =>
            /\ response[w].class_0_images = <<"a.png", "c.png">>
            /\ response[w].class_1_images = <<"b.png">>

ExampleBucketsWitness ==
    \E w \in Workers : BatchReturned(w) /\ uploaded_files[w] = ExampleBatch

ClearFailureAborts ==
    \A w \in Workers :
        /\ (response[w].kind = "error" /\ response[w].at = "remove") =>
              /\ pc[w] = "done"
              /\ uploaded_files[w] = <<>>
              /\ idx[w] = 0
              /\ img_array[w] = NoArray
              /\ prediction_result[w] = <<>>
              /\ class_0_images[w] = <<>>
              /\ class_1_images[w] = <<>>
        /\ pc[w] \in {"getlist", "for", "save", "open", "predict", "classify", "jsonify"}
              => items[w] = {}

ClearFailureAbortsWitness ==
    \E w \in Workers :
        /\ BatchDone(w)
        /\ response[w].kind = "error"
        /\ response[w].at = "remove"
        /\ Listdir(dir) # {}

\* worker w's POST /dashboard was refused by a check of request.files
NoFilePart(w) ==
    /\ pc[w] = "done"
    /\ request[w] = [path |-> "/dashboard", method |-> "POST"]
    /\ ~file[w].present

NoSelectedFile(w) ==
    /\ pc[w] = "done"
    /\ request[w] = [path |-> "/dashboard", method |-> "POST"]
    /\ file[w].present
    /\ file[w].filename = ""

\* C8: single-image validation: a POST /dashboard without an 'image' part
\* ends with a result carrying "No file part", one with an empty file name
\* with a result carrying "No selected file"; neither raises and neither
\* calls the classifier.
SingleImageValidation ==
    \A w \in Workers :
        /\ NoFilePart(w) =>
              /\ response[w].kind # "error"
              /\ response[w].message = "No file part"
              /\ prediction_result[w] = <<>>
        /\ NoSelectedFile(w) =>
              /\ response[w].kind # "error"
              /\ response[w].message = "No selected file"
              /\ prediction_result[w] = <<>>

NoDuplicateUsername ==
    \A i, j \in 1..Len(users) : users[i].username = users[j].username => i = j

\* worker w takes the step of register() that decides its POST, be it the
\* form's validation or the commit
RegisterDecides(w) ==
    /\ request[w] = [path |-> "/register", method |-> "POST"]
    /\ pc[w] \in {"reg_validate", "reg_commit"}
    /\ pc'[w] # pc[w]

\* C9: registration uniqueness: in every interleaving, a POST /register
\* decided while the table holds its username ends in the ValidationError
\* of validate_username and adds no row, and the table never holds a
\* username twice.
RegistrationUniqueness ==
    [][\A w \in Workers :
          /\ (RegisterDecides(w) /\ ExistingUser(users, form[w].username)) =>
                /\ users' = users
                /\ <<"username", UsernameExists>> \in form'[w].errors
                /\ response'[w].kind # "error"
          /\ NoDuplicateUsername']_vars

\* the folder holds exactly the batch: its files are the batch's distinct
\* file names, each with the bytes of the last upload of that name
DirHoldsBatch(w) ==
    /\ Listdir(dir) = Range(FileNames(uploaded_files[w]))
    /\ \A i \in 1..Len(uploaded_files[w]) :
          (\A j \in (i + 1)..Len(uploaded_files[w]) :
              uploaded_files[w][j].filename # uploaded_files[w][i].filename)
          => dir[uploaded_files[w][i].filename] = uploaded_files[w][i].data

====
